---- MODULE Spec2Model ----
(***************************************************************************)
(* The docking pipeline of src/src/jobs/basic_docking.py (run_job and the  *)
(* stage functions it calls) behind the Flask handler autodock_basic of    *)
(* src/src/main.py.                                                        *)
(*                                                                         *)
(* Process-wide state: the scratch directory /tmp (fs), the current        *)
(* working directory (cwd) and os.environ (environ).  Per request thread:  *)
(* the call frame of autodock_basic/run_job (frame).  Every file on disk   *)
(* carries the id of the job that wrote it, so that the provenance of      *)
(* whatever a stage reads or the publish step uploads can be stated.       *)
(***************************************************************************)
EXTENDS Integers, Sequences, FiniteSets, TLC

\* ------------------------------------------------------------------ bounds
\* Jobs (POST requests with a payload) accepted in one behaviour.
MaxJobs == 2
\* Request threads of the server.
NWorkers == 2
\* Entries whose removal raises during one sweep of clear_tmp.
MaxClearFailures == 1
\* Lines of a raw receptor file given to extract_and_combine_cryst1 on its own.
MaxLines == 3

Workers == 1..NWorkers

\* ------------------------------------------------------------ paths, files
\* A path is the tuple of its components: '/tmp/pose.sdf' is <<"tmp","pose.sdf">>.
tmp_dir == <<"tmp">>

\* os.path.join(tmp_dir, filename)
Join(dir, filename) == Append(dir, filename)

\* os.path.basename(path): the last component
BasenameKeepsDirectory(path) == path

Basename(path) == path[Len(path)]

\* Where download_from_gcs puts the three inputs (retrieve_gcs_files: "stores
\* them in /tmp") when the remote objects are named ligand.smi, receptor.pdb
\* and box.txt, in the order of remote_paths = [ligand, receptor, box].
local_paths ==
  << Join(tmp_dir, "ligand.smi"), Join(tmp_dir, "receptor.pdb"), Join(tmp_dir, "box.txt") >>

ligand_local == local_paths[1]
receptor_local == local_paths[2]
box_local == local_paths[3]

\* add_protomers: output_path
ligand_with_protomers == Join(tmp_dir, "ligand_with_protomers.sdf")
\* prepare_ligand: output_path (a directory) and the file returned from it
ligand_protomers_dir == Join(tmp_dir, "ligand_protomers")
ligand_prepared == Join(ligand_protomers_dir, "_i0.pdbqt")
\* extract_receptor_atoms: output_path
receptor_atoms == Join(tmp_dir, "receptor_atoms.pdb")
\* extract_and_combine_cryst1: output_path
receptor_cryst1 == Join(tmp_dir, "receptor_cryst1.pdb")
\* add_hydrogens_and_optimize: output_path
receptor_cryst1FH == Join(tmp_dir, "receptor_cryst1FH.pdb")
\* f'{path}{suffix}': the suffix is appended to the last component
WithSuffix(path, suffix) == [path EXCEPT ![Len(path)] = @ \o suffix]

\* prepare_receptor: intermediate_path, output_path, and the box file
\* mk_prepare_receptor.py -o intermediate_path --box_enveloping writes next to it
intermediate_path == Join(tmp_dir, "receptor_prepared")
receptor_prepared == WithSuffix(intermediate_path, ".pdbqt")
receptor_box == WithSuffix(intermediate_path, ".box.txt")
\* run_docking: config_txt and output_path
config_txt == Join(tmp_dir, "receptor_prepared.box.txt")
docking == Join(tmp_dir, "docking.pdbqt")
\* export_pose: output_path
pose == Join(tmp_dir, "pose.sdf")

Files ==
  { local_paths[1], local_paths[2], local_paths[3], ligand_with_protomers,
    ligand_prepared, receptor_atoms, receptor_cryst1, receptor_cryst1FH,
    receptor_prepared, receptor_box, docking, pose }

\* The entry directly under /tmp that holds a file (the file itself, or the
\* directory it lies in).
Entry(path) == SubSeq(path, 1, Len(tmp_dir) + 1)

VARIABLES fs, cwd, environ, njobs, frame

vars == << fs, cwd, environ, njobs, frame >>

\* os.path.exists(path)
Exists(disk, path) == disk[path] # {}

\* The files present on a disk.
Present(disk) == { p \in Files : Exists(disk, p) }

\* A tool (or a download) of job j writes the files of `paths`.
WriteFiles(disk, paths, j) == [p \in Files |-> IF p \in paths THEN {j} ELSE disk[p]]

\* ------------------------------------------------------- values of a frame
\* run_job has not returned (no result object exists).
NoResult == [status |-> "none"]
\* No exception has left run_job.
NoError == [type |-> "none"]
\* autodock_basic has not answered yet.
NoResponse == [code |-> 0]
\* run_command has not been called yet.
NoCommand == [step |-> "none"]
\* extract_and_combine_cryst1 has not written its output.
NoCombine == [done |-> FALSE]

\* The call frame of one request thread before a request arrives.
FreshFrame ==
  [ pc |-> "idle", job |-> 0, i |-> 0,
    log |-> << >>,              \* the steps attempted, in order
    last |-> NoCommand,         \* the last call of run_command and its outcome
    listed |-> {},              \* the files clear_tmp found on disk, and
    undeleted |-> {},           \* those whose removal raised (until the first download)
    local_paths |-> << >>,      \* run_job's local_paths: what the downloads returned
    combine |-> NoCombine,      \* what extract_and_combine_cryst1 read and wrote
                                \* (until the next stage runs its tool)
    success_files |-> << >>, failed_files |-> << >>,
    result |-> NoResult, error |-> NoError, response |-> NoResponse ]

\* ------------------------------------------------------------ run_command
\* What the operating system reports of a finished process.
ToolRuns ==
  { [returncode |-> 0, stdout |-> "out", stderr |-> ""],
    [returncode |-> 1, stdout |-> "", stderr |-> "err_a"],
    [returncode |-> 1, stdout |-> "out", stderr |-> "err_b"] }

\* A text file is the sequence of its lines; a line is its text and the blanks
\* that pad it at the end (PDB lines are padded to 80 columns).
Line(text, pad) == [text |-> text, pad |-> pad]
cryst1_record == Line("CRYST1   52.000   58.600   61.900  90.00  90.00  90.00 P 21 21 21    8", "")
cryst1_padded == [cryst1_record EXCEPT !.pad = "          "]
remark_line == Line("REMARK 285 CRYST1 RECORD IS INCLUDED, BUT THE VALUES ARE MEANINGLESS.", "")
atom_line == Line("ATOM      1  N   MET A   1      27.340  24.430   2.614  1.00  9.67           N", "")
hetatm_line == Line("HETATM 1000  O   HOH A 201      10.000  10.000  10.000  1.00 20.00           O", "")
PdbLines == { cryst1_record, cryst1_padded, remark_line, atom_line, hetatm_line }

\* The line holds the string "CRYST1" somewhere (what grep "CRYST1" selects).
ContainsCryst1(line) == line.text \in { cryst1_record.text, remark_line.text }

\* grep "CRYST1" file: stdout is every line that holds the pattern; exit 0 if
\* a line matched, 1 if none did, 2 if the file is unreadable.
Grep(readable, lines) ==
  IF ~readable THEN [returncode |-> 2, stdout |-> << >>, stderr |-> "err_a"]
  ELSE LET out == SelectSeq(lines, ContainsCryst1)
       IN [returncode |-> IF out = << >> THEN 1 ELSE 0, stdout |-> out, stderr |-> ""]

\* str.strip() of a text: the blanks and the newline that end it go (no line of
\* PdbLines starts with a blank); the lines before the last keep theirs.
Strip(lines) ==
  IF lines = << >> THEN << >> ELSE [lines EXCEPT ![Len(lines)].pad = ""]

\* The lines extract_and_combine_cryst1 writes: cryst1_line + '\n' when
\* cryst1_line is not empty, then receptor_f.readlines().
Combined(cryst1_line, atoms) ==
  IF cryst1_line # << >> THEN cryst1_line \o atoms ELSE atoms

\* A dict of environment variables is the set of its << name, value >> items.
\* env=None, and env=<a dict>, as run_command's argument:
InheritEnv == [given |-> FALSE]
GivenEnv(items) == [given |-> TRUE, items |-> items]

\* The environment subprocess.run(..., env=env) gives the child: the dict, or
\* the process's own os.environ when env is None.
ChildEnviron(env, process_environ) == IF env.given THEN env.items ELSE process_environ

\* subprocess.CalledProcessError(returncode, cmd, output, stderr)
CalledProcessError(command, proc) ==
  [ type |-> "CalledProcessError", cmd |-> command, returncode |-> proc.returncode,
    output |-> proc.stdout, stderr |-> proc.stderr ]

\* run_command(command, check, env) when the process ends as `proc`; child_env
\* is the environment subprocess.run started it with.
\* subprocess.run raises CalledProcessError on a non-zero exit under check,
\* the except clause prints and re-raises; otherwise the CompletedProcess is
\* returned.
RunCommandSwallows(step, command, check, env, proc) ==
  [ step |-> step, cmd |-> command, check |-> check, env |-> env,
    child_env |-> ChildEnviron(env, environ),
    returncode |-> proc.returncode, stdout |-> proc.stdout, stderr |-> proc.stderr,
    raised |-> FALSE, exc |-> NoError ]

run_command(step, command, check, env, proc) ==
  [ step |-> step, cmd |-> command, check |-> check, env |-> env,
    child_env |-> ChildEnviron(env, environ),
    returncode |-> proc.returncode, stdout |-> proc.stdout, stderr |-> proc.stderr,
    raised |-> (check /\ proc.returncode # 0),
    exc |-> IF check /\ proc.returncode # 0
            THEN CalledProcessError(command, proc) ELSE NoError ]


\* ------------------------------------------------------- run_job, failure
\* str(e)
Str(e) ==
  CASE e.type = "CalledProcessError" ->
         << "Command", e.cmd, "returned non-zero exit status", e.returncode >>
    [] e.type = "RuntimeError" -> << e.text, e.because >>
    [] OTHER -> << e.type >>

\* add_protomers: raise RuntimeError(f'Failed to read SMILES file ...') from e
ReadFailed(path) ==
  [ type |-> "RuntimeError", text |-> "Failed to read SMILES file",
    because |-> << path, "FileNotFoundError" >> ]

\* run_job: except Exception as e: raise RuntimeError(f'Workflow failed: {e}')
WorkflowFailedBare(e) == e

WorkflowFailed(e) ==
  [ type |-> "RuntimeError", text |-> "Workflow failed", because |-> Str(e), cause |-> e ]

\* One entry of a frame's log: the step and how it ended ("ok", "raised", and
\* for a deliverable "false": upload refused, "missing": no file to upload).
Did(step, outcome) == [step |-> step, outcome |-> outcome]

\* An exception `e` raised by `step` leaves run_job through its except clause.
RaiseButPrepareLigandGoesOn(f, step, e) ==
  IF step \in {"add_protomers", "mk_prepare_ligand"}
  THEN [f EXCEPT !.pc = "extract_receptor_atoms", !.log = Append(@, Did(step, "raised"))]
  ELSE [f EXCEPT !.pc = "failed", !.log = Append(@, Did(step, "raised")),
                 !.error = WorkflowFailed(e)]

RaiseThenRetry(f, step, e) ==
  [f EXCEPT !.log = Append(@, Did(step, "raised"))]

RaiseAndReturn(f, step, e) ==
  [f EXCEPT !.pc = "return", !.log = Append(@, Did(step, "raised")),
            !.error = WorkflowFailed(e)]

Raise(f, step, e) ==
  [f EXCEPT !.pc = "failed", !.log = Append(@, Did(step, "raised")),
            !.error = WorkflowFailed(e)]

\* ------------------------------------------------------ run_job, sequence
\* The statements of run_job's try block, in order.
Pipeline ==
  << "clear_tmp", "retrieve_gcs_files", "add_protomers", "mk_prepare_ligand",
     "extract_receptor_atoms", "extract_and_combine_cryst1",
     "add_hydrogens_and_optimize", "mk_prepare_receptor", "run_docking",
     "export_pose", "publish", "return" >>

IndexOf(step) == CHOOSE k \in 1..Len(Pipeline) : Pipeline[k] = step

\* The statement that follows `step` when it completes.
StepAfterSkipsReceptor(step) ==
  IF step = "mk_prepare_ligand" THEN "run_docking" ELSE Pipeline[IndexOf(step) + 1]

StepAfter(step) == Pipeline[IndexOf(step) + 1]

\* `step` completed: log it and move on.
Completed(f, step) ==
  [f EXCEPT !.pc = StepAfter(step), !.log = Append(@, Did(step, "ok")),
            !.i = 1]

\* ------------------------------------------------------------- clear_tmp
\* os.path.isdir(file_path) for the entries the pipeline creates under /tmp.
IsDir(entry) == entry = ligand_protomers_dir

\* The entries os.listdir(tmp_dir) returns.
Listdir(disk) == { Entry(p) : p \in Present(disk) }

\* The disk after the loop of clear_tmp: every entry is unlinked (a file) or
\* rmtree'd (a directory), except those of `failing`, whose removal raises and
\* is only printed.
SweepFilesOnly(disk, failing) ==
  [p \in Files |-> IF Entry(p) \in failing \/ IsDir(Entry(p)) THEN disk[p] ELSE {}]

SweepStopsAtFailure(disk, failing) ==
  IF failing = {} THEN [p \in Files |-> {}] ELSE disk

Sweep(disk, failing) ==
  [p \in Files |-> IF Entry(p) \in failing THEN disk[p] ELSE {}]

clear_tmp(t, W) ==
  /\ frame[t].pc = "clear_tmp"
  /\ \/ \* os.listdir raises: it stands outside the loop's try
        /\ W.faults
        /\ frame' = [frame EXCEPT ![t] = Raise(@, "clear_tmp", [type |-> "OSError"])]
        /\ UNCHANGED fs
     \/ \E failing \in SUBSET Listdir(fs) :
          /\ Cardinality(failing) <= W.max_clear_failures
          /\ fs' = Sweep(fs, failing)
          /\ frame' = [frame EXCEPT ![t] =
               Completed([@ EXCEPT !.listed = Present(fs),
                                   !.undeleted = { p \in Present(fs) : Entry(p) \in failing }],
                         "clear_tmp")]
  /\ UNCHANGED << cwd, environ, njobs >>

\* ---------------------------------------------------- retrieve_gcs_files
FetchSteps == << "download_ligand", "download_receptor", "download_box" >>

\* One turn of the loop: download_from_gcs(gcs_path) stores the object at a
\* local path of its choosing (one of W.fetched[i], by the object's name) and
\* returns the path, or raises.
retrieve_gcs_files(t, W) ==
  /\ frame[t].pc = "retrieve_gcs_files"
  /\ LET f == [frame[t] EXCEPT !.listed = {}, !.undeleted = {}]
         i == f.i
     IN \/ \E local_path \in W.fetched[i] :
             /\ fs' = WriteFiles(fs, {local_path}, f.job)
             /\ LET g == [f EXCEPT !.log = Append(@, Did(FetchSteps[i], "ok")),
                                   !.local_paths = Append(@, local_path)]
                IN frame' = [frame EXCEPT ![t] =
                     IF i = Len(FetchSteps) THEN Completed(g, "retrieve_gcs_files")
                     ELSE [g EXCEPT !.i = i + 1]]
        \/ /\ W.faults
           /\ frame' = [frame EXCEPT ![t] =
                Raise(f, FetchSteps[i], [type |-> "DownloadError", arg |-> i])]
           /\ UNCHANGED fs
  /\ UNCHANGED << cwd, environ, njobs >>

\* ------------------------------------------------------------ tool stages
\* The files a stage reads: the paths its command line (or its Python code)
\* names as inputs, in a job whose downloads returned the paths `lp`.
StageReadsOf(step, lp) ==
  CASE step = "add_protomers" -> {lp[1]}
    [] step = "mk_prepare_ligand" -> {ligand_with_protomers}
    [] step = "extract_receptor_atoms" -> {lp[2]}
    [] step = "extract_and_combine_cryst1" -> {lp[2], receptor_atoms}
    [] step = "add_hydrogens_and_optimize" -> {receptor_cryst1}
    [] step = "mk_prepare_receptor" -> {receptor_cryst1FH, lp[3]}
    [] step = "run_docking" -> {ligand_prepared, receptor_prepared, config_txt}
    [] step = "export_pose" -> {docking}
    [] OTHER -> {}

\* The same for the paths local_paths.
StageReads(step) == StageReadsOf(step, local_paths)

\* The files a stage writes: the paths it names as outputs.
StageWrites(step) ==
  CASE step = "add_protomers" -> {ligand_with_protomers}
    [] step = "mk_prepare_ligand" -> {ligand_prepared}
    [] step = "extract_receptor_atoms" -> {receptor_atoms}
    [] step = "extract_and_combine_cryst1" -> {receptor_cryst1}
    [] step = "add_hydrogens_and_optimize" -> {receptor_cryst1FH}
    [] step = "mk_prepare_receptor" -> {receptor_prepared, receptor_box}
    [] step = "run_docking" -> {docking}
    [] step = "export_pose" -> {pose}
    [] OTHER -> {}

\* A tool run with no fault of its own: it exits 0 and writes its output when
\* all its input files are there, and exits non-zero when one is missing.
Unfailing(proc, produced, disk, reads) ==
  IF \A p \in reads : Exists(disk, p)
  THEN proc.returncode = 0 /\ produced
  ELSE proc.stderr = "err_a"

\* A stage that is one run_command under check=True: the tool reads `reads`
\* and, when it exits 0, has written `writes` or (a tool is a black box)
\* nothing at the path the pipeline expects.
ToolStage(t, W, step, command, env) ==
  \E proc \in ToolRuns, produced \in BOOLEAN :
    LET f == [frame[t] EXCEPT !.combine = NoCombine]
        r == run_command(step, command, TRUE, env, proc)
        out == IF produced THEN StageWrites(step) ELSE {}
    IN /\ produced => proc.returncode = 0
       /\ W.faults \/ Unfailing(proc, produced, fs, StageReadsOf(step, f.local_paths))
       /\ IF r.raised
          THEN /\ frame' = [frame EXCEPT ![t] = Raise([f EXCEPT !.last = r], step, r.exc)]
               /\ UNCHANGED fs
          ELSE /\ frame' = [frame EXCEPT ![t] =
                    Completed([f EXCEPT !.last = r], step)]
               /\ fs' = WriteFiles(fs, out, f.job)

\* add_protomers: read the SMILES file, then scrub.py
add_protomers(t, W) ==
  /\ frame[t].pc = "add_protomers"
  /\ IF ~Exists(fs, frame[t].local_paths[1])
     THEN /\ frame' = [frame EXCEPT ![t] =
               Raise(@, "add_protomers", ReadFailed(frame[t].local_paths[1]))]
          /\ UNCHANGED fs
     ELSE ToolStage(t, W, "add_protomers",
                    << "scrub.py", "smiles_string", "-o", ligand_with_protomers >>,
                    InheritEnv)
  /\ UNCHANGED << cwd, environ, njobs >>

\* prepare_ligand, after add_protomers: mk_prepare_ligand.py
prepare_ligand(t, W) ==
  /\ frame[t].pc = "mk_prepare_ligand"
  /\ ToolStage(t, W, "mk_prepare_ligand",
               << "mk_prepare_ligand.py", "-i", ligand_with_protomers,
                  "--multimol_outdir", ligand_protomers_dir >>,
               InheritEnv)
  /\ UNCHANGED << cwd, environ, njobs >>

extract_receptor_atoms(t, W) ==
  /\ frame[t].pc = "extract_receptor_atoms"
  /\ ToolStage(t, W, "extract_receptor_atoms",
               << "python3", "parsePDB", frame[t].local_paths[2], "writePDB", receptor_atoms >>,
               InheritEnv)
  /\ UNCHANGED << cwd, environ, njobs >>

\* extract_and_combine_cryst1: grep under check=False, then the merge in
\* Python.  `raw` and `atoms` are the lines of the files at receptor and
\* receptor_atoms when they are read.
extract_and_combine_cryst1(t, raws, atom_files) ==
  /\ frame[t].pc = "extract_and_combine_cryst1"
  /\ \E raw \in (IF Exists(fs, frame[t].local_paths[2]) THEN raws ELSE {<< >>}),
        atoms \in (IF Exists(fs, receptor_atoms) THEN atom_files ELSE {<< >>}) :
       LET f == frame[t]
           receptor == f.local_paths[2]
           proc == Grep(Exists(fs, receptor), raw)
           r == run_command("extract_and_combine_cryst1",
                            << "grep", "CRYST1", receptor >>, FALSE, InheritEnv, proc)
           cryst1_line == Strip(r.stdout)
           g == [f EXCEPT !.last = r]
           h == [g EXCEPT !.combine = [ done |-> TRUE, receptor |-> raw,
                                        receptor_atoms |-> atoms,
                                        combined |-> Combined(cryst1_line, atoms) ]]
       IN /\ IF r.raised
             THEN /\ frame' = [frame EXCEPT ![t] =
                       Raise(g, "extract_and_combine_cryst1", r.exc)]
                  /\ UNCHANGED fs
             ELSE IF ~Exists(fs, receptor_atoms)
             THEN \* open(receptor_atoms, 'r') raises before the output is opened
                  /\ frame' = [frame EXCEPT ![t] =
                       Raise(g, "extract_and_combine_cryst1",
                             [type |-> "FileNotFoundError", path |-> receptor_atoms])]
                  /\ UNCHANGED fs
             ELSE /\ fs' = WriteFiles(fs, StageWrites("extract_and_combine_cryst1"), f.job)
                  /\ frame' = [frame EXCEPT ![t] =
                       Completed(h, "extract_and_combine_cryst1")]
  /\ UNCHANGED << cwd, environ, njobs >>

\* d[name] = value on a dict
SetItem(d, name, value) == { kv \in d : kv[1] # name } \cup { << name, value >> }

\* add_hydrogens_and_optimize, "Set up the geostd path":
\*   env = os.environ.copy(); env['MMTBX_CCP4_MONOMER_LIB'] = geostd_path
\* gives the dict handed to run_command (env) and leaves os.environ (environ).
MonomerLibEnvSetInPlace(process_environ, geostd_path) ==
  LET e == SetItem(process_environ, "MMTBX_CCP4_MONOMER_LIB", geostd_path)
  IN [env |-> e, environ |-> e]

MonomerLibEnv(process_environ, geostd_path) ==
  [ env |-> SetItem(process_environ, "MMTBX_CCP4_MONOMER_LIB", geostd_path),
    environ |-> process_environ ]

\* add_hydrogens_and_optimize: reduce2.py, run from /tmp with the monomer
\* library named in the child's environment. os.chdir(current_dir) follows
\* run_command and is not reached when it raises.
add_hydrogens_and_optimize(t, W) ==
  LET geostd_path == Join(cwd, "geostd")     \* os.path.abspath('geostd')
      m == MonomerLibEnv(environ, geostd_path)
  IN /\ frame[t].pc = "add_hydrogens_and_optimize"
     /\ ToolStage(t, W, "add_hydrogens_and_optimize",
                  << "python3", "reduce2.py", receptor_cryst1, "approach=add",
                     "add_flip_movers=True" >>,
                  GivenEnv(m.env))
     /\ environ' = m.environ
     /\ cwd' = IF frame'[t].pc = "failed" THEN tmp_dir ELSE cwd
     /\ UNCHANGED njobs

\* prepare_receptor, step 4: mk_prepare_receptor.py
prepare_receptor(t, W) ==
  /\ frame[t].pc = "mk_prepare_receptor"
  /\ ToolStage(t, W, "mk_prepare_receptor",
               << "mk_prepare_receptor.py", "--read_pdb", receptor_cryst1FH, "-o",
                  intermediate_path, "--box_enveloping", frame[t].local_paths[3],
                  "--padding", 5 >>,
               InheritEnv)
  /\ UNCHANGED << cwd, environ, njobs >>

\* run_docking(ligand_prepared, receptor_prepared): the vina command line.
\* Its --config is the literal config_txt.
DockingCommand(ligand, receptor) ==
  << "vina", "--ligand", ligand, "--receptor", receptor,
     "--config", config_txt, "--out", docking >>

run_docking(t, W, ligand, receptor) ==
  /\ frame[t].pc = "run_docking"
  /\ ToolStage(t, W, "run_docking", DockingCommand(ligand, receptor), InheritEnv)
  /\ UNCHANGED << cwd, environ, njobs >>

export_pose(t, W) ==
  /\ frame[t].pc = "export_pose"
  /\ ToolStage(t, W, "export_pose", << "mk_export.py", docking, "-s", pose >>,
               InheritEnv)
  /\ UNCHANGED << cwd, environ, njobs >>

\* ---------------------------------------------------------------- publish
\* prepare_receptor returns (receptor_cryst1FH, output_path); run_job names
\* the first `target`.
target == receptor_cryst1FH

\* files_to_upload: (local path, os.path.basename of it)
files_to_upload ==
  << [local_path |-> docking, filename |-> Basename(docking)],
     [local_path |-> pose, filename |-> Basename(pose)],
     [local_path |-> target, filename |-> Basename(target)] >>

UploadSteps == << "upload_docking", "upload_pose", "upload_target" >>

\* The for loop over files_to_upload: the index of the next turn.
NextUploadBreaks(i, outcome) ==
  IF outcome = "ok" THEN i + 1 ELSE Len(files_to_upload) + 1

NextUpload(i, outcome) == i + 1

\* The list a deliverable's filename is appended to.
FiledAsMissingDropped(outcome) ==
  IF outcome = "ok" THEN "success_files"
  ELSE IF outcome = "false" THEN "failed_files" ELSE "neither"

FiledAs(outcome) == IF outcome = "ok" THEN "success_files" ELSE "failed_files"

\* One turn of the loop: os.path.exists, then upload_to_gcs, which answers
\* True or False.
publish(t, W) ==
  /\ frame[t].pc = "publish"
  /\ \E outcome \in {"ok", "false", "missing"} :
       LET f == frame[t]
           i == f.i
           u == files_to_upload[i]
           g == [f EXCEPT
                   !.log = Append(@, Did(UploadSteps[i], outcome)),
                   !.success_files =
                      IF FiledAs(outcome) = "success_files" THEN Append(@, u.filename) ELSE @,
                   !.failed_files =
                      IF FiledAs(outcome) = "failed_files" THEN Append(@, u.filename) ELSE @]
           ni == NextUpload(i, outcome)
       IN /\ (outcome = "missing") <=> ~Exists(fs, u.local_path)
          /\ W.faults \/ outcome # "false"
          /\ frame' = [frame EXCEPT ![t] =
               IF ni > Len(files_to_upload) THEN Completed(g, "publish")
               ELSE [g EXCEPT !.i = ni]]
  /\ UNCHANGED << fs, cwd, environ, njobs >>

\* The dict run_job returns.
RunJobResultAlwaysSuccess(success, failed) == [status |-> "success", outputs |-> success]

RunJobResultFailureWhenNoneUploaded(success, failed) ==
  IF success = << >>
  THEN [status |-> "failure", outputs |-> success, failed_files |-> failed]
  ELSE IF failed # << >>
  THEN [status |-> "partial_success", outputs |-> success, failed_files |-> failed]
  ELSE [status |-> "success", outputs |-> success]

RunJobResult(success, failed) ==
  IF failed # << >>
  THEN [status |-> "partial_success", outputs |-> success, failed_files |-> failed]
  ELSE [status |-> "success", outputs |-> success]

run_job_return(t) ==
  /\ frame[t].pc = "return"
  /\ frame' = [frame EXCEPT ![t] =
       [@ EXCEPT !.pc = "returned",
                 !.result = RunJobResult(frame[t].success_files, frame[t].failed_files)]]
  /\ UNCHANGED << fs, cwd, environ, njobs >>

\* ---------------------------------------------------------- autodock_basic
\* The response to a POST whose run_job returned or raised.
Response(f) ==
  IF f.pc = "returned"
  THEN [ code |-> 200,
         body |-> [message |-> "Automation completed successfully", result |-> f.result] ]
  ELSE [ code |-> 500, body |-> [error |-> Str(f.error)] ]

autodock_basic_respond(t) ==
  /\ frame[t].pc \in {"returned", "failed"}
  /\ frame' = [frame EXCEPT ![t] = [@ EXCEPT !.pc = "done", !.response = Response(frame[t])]]
  /\ UNCHANGED << fs, cwd, environ, njobs >>

\* A request arrives at a thread that serves none: a GET, a POST without a
\* JSON payload, or a POST that starts run_job.  A serial server's thread
\* takes the next request when it has answered (`again`); a threaded server
\* starts a thread for each request.
autodock_basic(t, again) ==
  /\ frame[t].pc \in (IF again THEN {"idle", "done"} ELSE {"idle"})
  /\ \E method \in {"GET", "POST"}, data \in BOOLEAN :
       /\ method = "GET" => ~data
       /\ IF method = "POST" /\ data
          THEN /\ njobs < MaxJobs
               /\ njobs' = njobs + 1
               /\ frame' = [frame EXCEPT ![t] =
                    [FreshFrame EXCEPT !.pc = Pipeline[1], !.job = njobs + 1, !.i = 1]]
          ELSE /\ frame' = [frame EXCEPT ![t] =
                    [FreshFrame EXCEPT
                       !.pc = "done",
                       !.response =
                          IF method = "POST"
                          THEN [code |-> 400, body |-> [error |-> << "No JSON payload provided" >>]]
                          ELSE [code |-> 200, body |-> [message |-> "Basic docking endpoint"]]]]
               /\ UNCHANGED njobs
  /\ UNCHANGED << fs, cwd, environ >>

\* ------------------------------------------------------------------- specs
\* The directory the server was started in, and its environment.
app_dir == << "app" >>
app_environ == { << "PATH", "bin" >>, << "HOME", "root" >> }

Init ==
  /\ fs = [p \in Files |-> {}]
  /\ cwd = app_dir
  /\ environ = app_environ
  /\ njobs = 0
  /\ frame = [t \in Workers |-> FreshFrame]

\* One step of the request thread t inside run_job or after it.
Step(t, W) ==
  \/ clear_tmp(t, W)
  \/ retrieve_gcs_files(t, W)
  \/ add_protomers(t, W)
  \/ prepare_ligand(t, W)
  \/ extract_receptor_atoms(t, W)
  \/ extract_and_combine_cryst1(t, W.raws, W.atom_files)
  \/ add_hydrogens_and_optimize(t, W)
  \/ prepare_receptor(t, W)
  \/ run_docking(t, W, ligand_prepared, receptor_prepared)
  \/ export_pose(t, W)
  \/ publish(t, W)
  \/ run_job_return(t)
  \/ autodock_basic_respond(t)

\* What the environment of the pipeline may do.  With faults: a tool may exit
\* non-zero or exit 0 without having written its output, a download or
\* os.listdir may raise, an upload may answer False, and up to
\* MaxClearFailures removals of one sweep may raise.  Without: none of these
\* happens unless an input file is missing.
\* The receptor a job downloads has a CRYST1 record or (with faults) none;
\* extract_receptor_atoms leaves the ATOM lines.
\* The local paths download_from_gcs returns are those of local_paths.
Faulty ==
  [ faults |-> TRUE, max_clear_failures |-> MaxClearFailures,
    fetched |-> [i \in DOMAIN local_paths |-> {local_paths[i]}],
    raws |-> { << cryst1_record, atom_line, hetatm_line >>, << atom_line, hetatm_line >> },
    atom_files |-> { << atom_line >> } ]
Faultless ==
  [ faults |-> FALSE, max_clear_failures |-> MaxClearFailures - MaxClearFailures,
    fetched |-> [i \in DOMAIN local_paths |-> {local_paths[i]}],
    raws |-> { << cryst1_record, atom_line, hetatm_line >> },
    atom_files |-> { << atom_line >> } ]

\* Requests served one after another, by one thread.
Next == autodock_basic(1, TRUE) \/ Step(1, Faulty)

Spec == Init /\ [][Next]_vars

\* Requests served as they arrive, each by its own thread (Flask's app.run
\* serves threaded).
NextThreaded == \E t \in Workers : autodock_basic(t, FALSE) \/ Step(t, Faultless)

SpecThreaded == Init /\ [][NextThreaded]_vars

\* The same serial server when every external call (tool, download, upload,
\* removal) returns: the thread inside run_job always takes its next step.
SpecFair == Spec /\ WF_vars(Step(1, Faulty))

\* One job whose remote objects have other names: download_from_gcs stores
\* each under /tmp at the path its name gives, which run_job does not choose.
AnyNames ==
  [ Faulty EXCEPT
      !.fetched = << {ligand_local, ligand_with_protomers},
                     {receptor_local, receptor_atoms, receptor_cryst1FH},
                     {box_local, receptor_box} >> ]

InitFetch ==
  /\ fs = [p \in Files |-> {}]
  /\ cwd = app_dir
  /\ environ = app_environ
  /\ njobs = MaxJobs - 1
  /\ frame = [t \in Workers |-> FreshFrame]

NextFetch == autodock_basic(1, TRUE) \/ Step(1, AnyNames)

SpecFetch == InitFetch /\ [][NextFetch]_vars

\* run_docking on its own, called once with any prepared-ligand path and any
\* prepared-receptor path (a prepared receptor is named <stem>.pdbqt).
ScratchDirs == { tmp_dir, << "data" >>, << "tmp", "job7" >> }
LigandPaths == { ligand_prepared, << "data", "lig.pdbqt" >>, << "tmp", "job7", "lig_0.pdbqt" >> }
ReceptorStems ==
  { Join(d, n) : d \in ScratchDirs, n \in {"receptor_prepared", "1abc", "2xyz", "r"} }
ReceptorPaths == { WithSuffix(stem, ".pdbqt") : stem \in ReceptorStems }

InitDocking ==
  /\ fs = [p \in Files |-> {}]
  /\ cwd = app_dir
  /\ environ = app_environ
  /\ njobs = 1
  /\ frame = [t \in Workers |->
                IF t = 1 THEN [FreshFrame EXCEPT !.pc = "run_docking", !.job = 1, !.i = 1]
                ELSE FreshFrame]

NextDocking ==
  \E ligand \in LigandPaths, receptor \in ReceptorPaths : run_docking(1, Faulty, ligand, receptor)

SpecDocking == InitDocking /\ [][NextDocking]_vars

\* extract_and_combine_cryst1 on its own, called once with any raw receptor
\* file of at most MaxLines lines and any atoms file.
RECURSIVE TextsUpTo(_)
TextsUpTo(n) ==
  IF n = 0 THEN { << >> }
  ELSE TextsUpTo(n - 1) \cup { Append(x, l) : x \in TextsUpTo(n - 1), l \in PdbLines }

RawFiles == TextsUpTo(MaxLines)
AtomFiles == { << atom_line >>, << atom_line, atom_line >> }

InitCryst1 ==
  /\ fs = WriteFiles([p \in Files |-> {}], {receptor_local, receptor_atoms}, 1)
  /\ cwd = app_dir
  /\ environ = app_environ
  /\ njobs = 1
  /\ frame = [t \in Workers |->
                IF t = 1 THEN [FreshFrame EXCEPT !.pc = "extract_and_combine_cryst1",
                                                 !.job = 1, !.i = 1,
                                                 !.local_paths = local_paths]
                ELSE FreshFrame]

NextCryst1 == extract_and_combine_cryst1(1, RawFiles, AtomFiles)

SpecCryst1 == InitCryst1 /\ [][NextCryst1]_vars

\* ================================================================ claims
Range(seq) == { seq[k] : k \in DOMAIN seq }

\* The steps of a log, and the place of the first entry of `step` in it.
Logged(f, step) == \E k \in DOMAIN f.log : f.log[k].step = step
Ended(f, step, outcome) == Did(step, outcome) \in Range(f.log)
Before(f, done, step) ==
  \A k \in DOMAIN f.log :
    f.log[k].step = step => \E h \in 1..(k - 1) : f.log[h] = Did(done, "ok")

LigandPrepSteps == {"add_protomers", "mk_prepare_ligand"}
ReceptorPrepSteps ==
  { "extract_receptor_atoms", "extract_and_combine_cryst1",
    "add_hydrogens_and_optimize", "mk_prepare_receptor" }
UploadStepSet == Range(UploadSteps)

\* run_job has ended in failure: an error left it, it returned nothing, and
\* once autodock_basic has answered, the answer is the 500 error.
EndedInFailure(f) ==
  /\ f.pc \in {"failed", "done"}
  /\ f.result = NoResult
  /\ f.error.type = "RuntimeError"
  /\ f.pc = "done" => f.response.code = 500

\* C1: when add_protomers' or mk_prepare_ligand's tool exits non-zero, the job
\* ends in failure with no result object, and no step of receptor
\* preparation, docking ("run_docking"), export or upload is in the job's log.
C1_LigandToolFailureAbortsJob ==
  \A t \in Workers :
    LET f == frame[t] IN
    (f.last.step \in LigandPrepSteps /\ f.last.returncode # 0) =>
      /\ EndedInFailure(f)
      /\ \A e \in Range(f.log) :
           e.step \notin ReceptorPrepSteps \cup {"run_docking", "export_pose", "publish"}
                           \cup UploadStepSet

C1_Witness ==
  \E t \in Workers :
    /\ frame[t].last.step = "mk_prepare_ligand"
    /\ frame[t].last.returncode # 0
    /\ frame[t].pc = "done"
    /\ Ended(frame[t], "add_protomers", "ok")

\* C2: a step of the job that raises (a download, os.listdir, a read of a
\* missing file, a tool that exits non-zero under check) is the last step of
\* the job and is none of the uploads; run_job then raises the one
\* RuntimeError 'Workflow failed: <cause>' holding the cause, returns no
\* result, and autodock_basic answers 500 with that error's text and no
\* result object.
C2_FatalErrorFailsJob ==
  \A t \in Workers :
    LET f == frame[t] IN
    /\ \A k \in DOMAIN f.log :
         f.log[k].outcome = "raised" =>
           /\ k = Len(f.log)
           /\ f.log[k].step \notin UploadStepSet
           /\ EndedInFailure(f)
           /\ f.error.text = "Workflow failed"
           /\ f.error.because = Str(f.error.cause)
           /\ f.last.step = f.log[k].step /\ f.last.raised => f.error.cause = f.last.exc
           /\ f.pc = "done" =>
                f.response = [code |-> 500, body |-> [error |-> Str(f.error)]]
    /\ f.error # NoError => f.result = NoResult /\ Len(f.log) > 0
                            /\ f.log[Len(f.log)].outcome = "raised"

C2_Witness ==
  \E t \in Workers :
    /\ frame[t].pc = "done"
    /\ Ended(frame[t], "run_docking", "raised")
    /\ frame[t].response.code = 500
    /\ frame[t].error.cause.type = "CalledProcessError"

\* C3: in a result run_job returned, a deliverable whose file was missing
\* at its turn of the publish loop, or whose upload answered False, has its
\* filename in failed_files, and the status is partial_success.
C3_MissingOrRefusedIsPartial ==
  \A t \in Workers :
    LET f == frame[t] IN
    f.result # NoResult =>
      \A i \in DOMAIN files_to_upload :
        (Ended(f, UploadSteps[i], "missing") \/ Ended(f, UploadSteps[i], "false")) =>
          /\ f.result.status = "partial_success"
          /\ files_to_upload[i].filename \in Range(f.result.failed_files)

C3_Witness ==
  \E t \in Workers :
    /\ frame[t].result # NoResult
    /\ Ended(frame[t], UploadSteps[1], "missing")
    /\ Ended(frame[t], UploadSteps[2], "ok")
    /\ Ended(frame[t], UploadSteps[3], "false")

\* C4: when every deliverable was on disk and every upload answered True, the
\* result is exactly {status: success, outputs: the three basenames in the
\* order docking, pose, target}, with no failed_files key.
C4_AllUploadedIsSuccess ==
  \A t \in Workers :
    LET f == frame[t] IN
    (f.result # NoResult /\ \A i \in DOMAIN files_to_upload : Ended(f, UploadSteps[i], "ok")) =>
      f.result = [ status |-> "success",
                   outputs |-> << "docking.pdbqt", "pose.sdf", "receptor_cryst1FH.pdb" >> ]

C4_Witness ==
  \E t \in Workers :
    /\ frame[t].pc = "done"
    /\ frame[t].response.code = 200
    /\ frame[t].result # NoResult
    /\ \A i \in DOMAIN files_to_upload : Ended(frame[t], UploadSteps[i], "ok")

\* The entries of a log that are turns of the publish loop, in order.
IsUpload(e) == e.step \in UploadStepSet
Uploads(f) == SelectSeq(f.log, IsUpload)

\* One turn of the publish loop by thread t: it handles deliverable i, tries
\* the upload exactly when the file is on disk, and whatever the outcome goes
\* on with deliverable i + 1 (after the last, with the summary).
PublishTurn(t) ==
  (frame[t].pc = "publish" /\ frame'[t] # frame[t]) =>
    LET i == frame[t].i
        e == frame'[t].log[Len(frame[t].log) + 1]
    IN /\ e.step = UploadSteps[i]
       /\ (e.outcome \in {"ok", "false"}) <=> Exists(fs, files_to_upload[i].local_path)
       /\ (e.outcome = "missing") <=> ~Exists(fs, files_to_upload[i].local_path)
       /\ IF i < Len(files_to_upload)
          THEN frame'[t].pc = "publish" /\ frame'[t].i = i + 1
          ELSE frame'[t].pc = "return"

\* Past the publish loop each of the three deliverables has had its turn,
\* once and in order.
AllTurnsTaken(t) ==
  frame[t].pc \in {"return", "returned"} =>
    /\ Len(Uploads(frame[t])) = Len(files_to_upload)
    /\ \A i \in DOMAIN files_to_upload : Uploads(frame[t])[i].step = UploadSteps[i]

\* C5: once the publish loop is reached every deliverable is processed, in
\* order, whatever happened to the ones before it (a missing file and an
\* upload answering False included), and upload_to_gcs is called exactly for
\* the files that exist locally.
C5_PublishNeverAborts ==
  /\ [](\A t \in Workers : AllTurnsTaken(t))
  /\ [][\A t \in Workers : PublishTurn(t)]_vars

C5_Witness ==
  \E t \in Workers :
    /\ frame[t].pc = "returned"
    /\ Ended(frame[t], UploadSteps[1], "false")
    /\ Ended(frame[t], UploadSteps[2], "missing")
    /\ Ended(frame[t], UploadSteps[3], "ok")

\* The steps of run_job that completed, in order.
IsStage(e) == e.step \in Range(Pipeline) /\ e.outcome = "ok"
Stages(f) == SelectSeq(f.log, IsStage)

\* C6: the steps of a job complete only in the order clear, fetch, ligand
\* preparation, receptor preparation, docking, export, publish; docking is
\* tried only after ligand and receptor preparation completed, export only
\* after docking completed, the first upload only after export and receptor
\* preparation completed, and a download only after the clear.
C6_StepsInOrder ==
  \A t \in Workers :
    LET f == frame[t] IN
    /\ \A k \in DOMAIN Stages(f) : Stages(f)[k].step = Pipeline[k]
    /\ Before(f, "mk_prepare_ligand", "run_docking")
    /\ Before(f, "mk_prepare_receptor", "run_docking")
    /\ Before(f, "add_protomers", "mk_prepare_ligand")
    /\ Before(f, "mk_prepare_ligand", "extract_receptor_atoms")
    /\ Before(f, "run_docking", "export_pose")
    /\ \A u \in UploadStepSet :
         Before(f, "export_pose", u) /\ Before(f, "mk_prepare_receptor", u)
    /\ \A d \in Range(FetchSteps) :
         Before(f, "clear_tmp", d) /\ Before(f, "clear_tmp", "add_protomers")
    /\ Before(f, "retrieve_gcs_files", "add_protomers")

C6_Witness ==
  \E t \in Workers :
    /\ Logged(frame[t], UploadSteps[1])
    /\ Ended(frame[t], "run_docking", "ok")
    /\ frame[t].job = 2

\* C7 as stated: right after clear_tmp and before the first download, no file
\* that was on disk before the sweep is there.
C7_AsStated ==
  \A t \in Workers :
    LET f == frame[t] IN
    (f.pc = "retrieve_gcs_files" /\ f.i = 1) =>
      \A p \in f.listed : ~Exists(fs, p)

\* C7, amended: right after clear_tmp and before the first download, every
\* file that was on disk before the sweep and whose removal did not raise is
\* gone; the files whose removal raised (logged and swallowed) are still
\* there, as the job that wrote them left them.
C7_RemovedUnlessRemovalFailed ==
  \A t \in Workers :
    LET f == frame[t] IN
    (f.pc = "retrieve_gcs_files" /\ f.i = 1) =>
      /\ f.undeleted \subseteq f.listed
      /\ \A p \in f.listed \ f.undeleted : ~Exists(fs, p)
      /\ \A p \in f.undeleted : Exists(fs, p) /\ fs[p] # {f.job}
      /\ Present(fs) = f.undeleted

C7_Witness ==
  \E t \in Workers :
    /\ frame[t].pc = "retrieve_gcs_files" /\ frame[t].i = 1
    /\ frame[t].undeleted # {}
    /\ Cardinality(frame[t].listed \ frame[t].undeleted) >= 2
    /\ ligand_prepared \in frame[t].listed \ frame[t].undeleted

\* Thread t takes this step.
Stepped(t) == frame'[t] # frame[t]

\* The files the step thread t takes reads as a stage's input, or uploads as a
\* deliverable: those its command names that are on disk, when the stage
\* completed or the upload answered True.
Consumed(t) ==
  LET f == frame[t]
      g == frame'[t]
  IN IF Len(g.log) <= Len(f.log) \/ g.log[Len(f.log) + 1].outcome # "ok"
     THEN {}
     ELSE IF f.pc = "publish" THEN {files_to_upload[f.i].local_path}
     ELSE StageReads(f.pc) \cap Present(fs)

\* C8 as stated: every file a stage of a job reads, and every file the job
\* uploads as a deliverable, was downloaded or written by that same job.
C8_NoStaleArtifact ==
  [][\A t \in Workers : \A p \in Consumed(t) : fs[p] = {frame[t].job}]_vars

\* run_job of thread u is between its clear and its return.
InProgress(u) == frame[u].pc \in Range(Pipeline) \ {"clear_tmp", "return"}

\* The files job u has yet to read or upload: the inputs of the stages from
\* its current one on, and the deliverables whose turn has not come.
StillNeeded(u) ==
  LET f == frame[u]
      k == IndexOf(f.pc)
  IN UNION { StageReads(Pipeline[h]) : h \in k..Len(Pipeline) }
       \cup { files_to_upload[i].local_path :
                i \in (IF f.pc = "publish" THEN f.i ELSE 1)..Len(files_to_upload) }

\* C9 as stated: with two jobs running at once, no step of one job (its
\* clear, a download, a stage output) deletes or overwrites a file the other
\* job wrote and has yet to read or upload, and no job reads or uploads a file
\* the other wrote.
C9_JobsDoNotInterfere ==
  [][\A t \in Workers :
       /\ \A p \in Consumed(t) : fs[p] = {frame[t].job}
       /\ Stepped(t) =>
            \A u \in Workers \ {t} :
              InProgress(u) =>
                \A p \in StillNeeded(u) : fs[p] = {frame[u].job} => fs'[p] = fs[p]]_vars

\* C10: a run_command under check whose process exits non-zero raises the
\* CalledProcessError that holds the command and the captured stderr, and the
\* error is not swallowed: the step ends raised and the error is the cause of
\* run_job's failure.  Without check, and on exit 0, nothing is raised and the
\* completed process (exit code, stdout, stderr as the process left them) is
\* what the caller gets; a non-zero exit of the unchecked grep fails no job.
C10_RunCommandRaisesOrReturns ==
  \A t \in Workers :
    LET f == frame[t]
        c == f.last
    IN c.step # "none" =>
         IF c.check /\ c.returncode # 0
         THEN /\ c.raised
              /\ c.exc.type = "CalledProcessError"
              /\ c.exc.cmd = c.cmd
              /\ c.exc.stderr = c.stderr
              /\ c.exc.returncode = c.returncode
              /\ Ended(f, c.step, "raised")
              /\ f.pc \in {"failed", "done"}
              /\ f.error.cause = c.exc
         ELSE /\ ~c.raised
              /\ c.exc = NoError
              /\ c.check = (c.step # "extract_and_combine_cryst1")
              /\ Ended(f, c.step, "raised") => f.error.cause.type = "FileNotFoundError"

C10_Witness ==
  \E t \in Workers :
    /\ frame[t].last.step = "extract_and_combine_cryst1"
    /\ ~frame[t].last.check
    /\ frame[t].last.returncode = 1
    /\ frame[t].last.stdout = << >>
    /\ frame[t].pc = "add_hydrogens_and_optimize"

\* C11: a removal that raises inside clear_tmp never fails the job.  In the
\* step of clear_tmp in which the removal of some entry raised, the error is
\* reported (the frame's undeleted files) and not raised: clear_tmp completes,
\* no error leaves run_job, every file whose removal did not raise is gone
\* (the loop went on past the failure), only the files under the failing
\* entries are left, and the next statement of run_job is the fetch.
C11_RemovalFailureNeverFailsJob ==
  [][\A t \in Workers :
       (frame[t].pc = "clear_tmp" /\ frame'[t].undeleted # {}) =>
         /\ frame'[t].pc = "retrieve_gcs_files" /\ frame'[t].i = 1
         /\ frame'[t].log = << Did("clear_tmp", "ok") >>
         /\ frame'[t].error = NoError
         /\ \A p \in Present(fs) \ frame'[t].undeleted : ~Exists(fs', p)
         /\ Present(fs') = frame'[t].undeleted]_vars

C11_Witness ==
  \E t \in Workers :
    /\ frame[t].pc = "retrieve_gcs_files" /\ frame[t].i = 1
    /\ frame[t].log = << Did("clear_tmp", "ok") >>
    /\ frame[t].undeleted = {ligand_with_protomers}
    /\ {docking, ligand_prepared} \subseteq frame[t].listed
    /\ ~Exists(fs, docking) /\ ~Exists(fs, ligand_prepared)

\* C12 as stated: the step of add_hydrogens_and_optimize, whether reduce2.py
\* exits 0 or not, leaves the process's current working directory as it was
\* before the step.
C12_CwdRestoredAfterHydrogens ==
  [][\A t \in Workers :
       (frame[t].pc = "add_hydrogens_and_optimize" /\ Stepped(t)) => cwd' = cwd]_vars

\* The names a dict of environment variables has a value for.
Names(d) == { kv[1] : kv \in d }

\* C13: the MMTBX_CCP4_MONOMER_LIB override reaches reduce2.py alone.  The
\* process environment is at all times the one the server started with (it
\* has no MMTBX_CCP4_MONOMER_LIB), also after add_hydrogens_and_optimize
\* completed or raised; the child of add_hydrogens_and_optimize runs with that
\* environment plus the override, and the child of every other run_command is
\* given no env and runs with the process environment, without the variable.
C13_OverrideOnlyForHydrogens ==
  /\ environ = app_environ
  /\ "MMTBX_CCP4_MONOMER_LIB" \notin Names(environ)
  /\ \A t \in Workers :
       LET c == frame[t].last IN
       c.step # "none" =>
         IF c.step = "add_hydrogens_and_optimize"
         THEN /\ c.env.given
              /\ \E dir \in {app_dir, tmp_dir} :
                   c.child_env = environ \cup { << "MMTBX_CCP4_MONOMER_LIB", Join(dir, "geostd") >> }
         ELSE /\ c.env = InheritEnv
              /\ c.child_env = environ
              /\ "MMTBX_CCP4_MONOMER_LIB" \notin Names(c.child_env)

\* A job whose reduce2.py exited 0 runs its next tool, in a process where an
\* earlier job's reduce2.py had failed (which left cwd at /tmp).
C13_Witness ==
  \E t \in Workers :
    /\ frame[t].last.step = "mk_prepare_receptor"
    /\ Ended(frame[t], "add_hydrogens_and_optimize", "ok")
    /\ cwd = tmp_dir
    /\ "MMTBX_CCP4_MONOMER_LIB" \notin Names(frame[t].last.child_env)

\* The --receptor and --config arguments of a vina command line.
ReceptorArg(cmd) == cmd[5]
ConfigArg(cmd) == cmd[7]

\* The naming convention: the box configuration of X.pdbqt is X.box.txt.
BoxConfigOf(receptor) ==
  LET stem == CHOOSE x \in ReceptorStems : WithSuffix(x, ".pdbqt") = receptor
  IN WithSuffix(stem, ".box.txt")

\* C14 as stated: whatever prepared-receptor path run_docking is called with,
\* the --config path it gives to vina is that path with .pdbqt replaced by
\* .box.txt (so distinct receptor paths get distinct, correspondingly named
\* config paths).
C14_ConfigFollowsReceptor ==
  \A t \in Workers :
    LET c == frame[t].last IN
    c.step = "run_docking" => ConfigArg(c.cmd) = BoxConfigOf(ReceptorArg(c.cmd))

\* The line is a CRYST1 record: it starts with the record name.
IsCryst1Record(line) == line.text = cryst1_record.text

\* C15 as stated: when the raw receptor file has a CRYST1 record line, the
\* file extract_and_combine_cryst1 writes has that record as its first line
\* (read up to the blanks that pad the record), followed by the lines of the
\* atoms file; when it has none, the file written is the atoms file, line for
\* line, and the step completes.
C15_Cryst1RecordThenAtoms ==
  \A t \in Workers :
    LET m == frame[t].combine IN
    m.done =>
      LET records == SelectSeq(m.receptor, IsCryst1Record)
      IN /\ Ended(frame[t], "extract_and_combine_cryst1", "ok")
         /\ IF records # << >>
            THEN /\ m.combined # << >>
                 /\ Head(m.combined).text = cryst1_record.text
                 /\ Tail(m.combined) = m.receptor_atoms
            ELSE m.combined = m.receptor_atoms

\* The stages that write files.
WritingStages == { step \in Range(Pipeline) : StageWrites(step) # {} }

\* C16 as stated: a stage that completes writes none of the files it reads
\* and none of the files the job's downloads returned, no file it writes was
\* written before by this job, and no two stages write the same file.
C16_NoArtifactMutatedInPlace ==
  [][\A t \in Workers :
       LET f == frame[t]
           step == f.pc
       IN (step \in WritingStages /\ frame'[t].pc = StepAfter(step)) =>
            /\ StageWrites(step) \cap StageReadsOf(step, f.local_paths) = {}
            /\ StageWrites(step) \cap Range(f.local_paths) = {}
            /\ \A p \in StageWrites(step) : fs[p] # {f.job}
            /\ \A other \in WritingStages \ {step} :
                 StageWrites(step) \cap StageWrites(other) = {}]_vars

\* C17: nothing is retried.  In the log of a job every step (each tool stage,
\* each download, each upload of a deliverable, the clear) has at most one
\* entry, whether it ended ok, raised, refused or missing, and the one
\* run_command of a stage that raised is not followed by another.
C17_NoRetries ==
  \A t \in Workers :
    LET f == frame[t] IN
    /\ \A j, k \in DOMAIN f.log : f.log[j].step = f.log[k].step => j = k
    /\ \A k \in DOMAIN f.log : f.log[k].outcome = "raised" => k = Len(f.log)

C17_Witness ==
  \E t \in Workers :
    /\ frame[t].pc = "done"
    /\ frame[t].job = MaxJobs
    /\ Ended(frame[t], "upload_docking", "false")
    /\ Ended(frame[t], "upload_pose", "missing")
    /\ Ended(frame[t], "download_box", "ok")

\* run_job of the frame has ended: it returned or raised (and autodock_basic
\* may have answered).
Terminal(f) == f.job > 0 /\ f.pc \in {"returned", "failed", "done"}

\* C18: with every external call returning, a job that starts ends: run_job
\* returns a result (success or partial_success) or raises (failed), never
\* both and never neither; before that it has neither result nor error; and
\* once it has ended the job takes no further stage, download or upload and
\* its result and error stay as they are.
C18_OneTerminalOutcome ==
  /\ (frame[1].pc \in Range(Pipeline)) ~> (frame[1].pc \in {"returned", "failed"})
  /\ [](\A t \in Workers :
          LET f == frame[t] IN
          IF Terminal(f)
          THEN /\ (f.result # NoResult) # (f.error # NoError)
               /\ f.result # NoResult => f.result.status \in {"success", "partial_success"}
               /\ f.pc = "returned" => f.result # NoResult
               /\ f.pc = "failed" => f.error # NoError
          ELSE f.result = NoResult /\ f.error = NoError)
  /\ [][\A t \in Workers :
         /\ frame[t].pc \in Range(Pipeline) => frame'[t].job = frame[t].job
         /\ (Terminal(frame[t]) /\ frame'[t].job = frame[t].job) =>
           /\ frame'[t].log = frame[t].log
           /\ frame'[t].result = frame[t].result
           /\ frame'[t].error = frame[t].error
           /\ frame'[t].pc \in {frame[t].pc, "done"}
           /\ fs' = fs]_vars

C18_Witness ==
  \E t \in Workers :
    /\ frame[t].pc = "done"
    /\ frame[t].job = MaxJobs
    /\ frame[t].result # NoResult
    /\ frame[t].result.status = "partial_success"
    /\ cwd = tmp_dir

\* The failed list of a result: its failed_files, absent from a success.
FailedOf(result) ==
  IF result.status = "success" THEN << >> ELSE result.failed_files

\* The three logical filenames.
Deliverables == { files_to_upload[i].filename : i \in DOMAIN files_to_upload }

\* C19: in every result run_job returned, outputs and the failed list have
\* no filename in common and hold, together, each of the three logical
\* filenames exactly once; a deliverable is in outputs exactly when its
\* upload answered True.
C19_ListsPartitionDeliverables ==
  \A t \in Workers :
    LET f == frame[t] IN
    f.result # NoResult =>
      LET outputs == f.result.outputs
          failed == FailedOf(f.result)
      IN /\ Range(outputs) \cap Range(failed) = {}
         /\ Range(outputs) \cup Range(failed) = Deliverables
         /\ Len(outputs) + Len(failed) = Cardinality(Deliverables)
         /\ Cardinality(Deliverables) = Len(files_to_upload)
         /\ \A i \in DOMAIN files_to_upload :
              files_to_upload[i].filename \in Range(outputs) <=> Ended(f, UploadSteps[i], "ok")

C19_Witness ==
  \E t \in Workers :
    /\ frame[t].result # NoResult
    /\ Ended(frame[t], UploadSteps[1], "ok")
    /\ Ended(frame[t], UploadSteps[2], "false")
    /\ Ended(frame[t], UploadSteps[3], "missing")

\* C20: run_job returns no result of status failure.  The status is success
\* exactly when failed_files is empty (the key is then absent) and
\* partial_success otherwise; a job none of whose deliverables was uploaded
\* (each missing or refused) raises nothing and returns partial_success with
\* empty outputs and the three filenames in failed_files, and autodock_basic
\* answers 200.
C20_NeverStatusFailure ==
  \A t \in Workers :
    LET f == frame[t] IN
    f.result # NoResult =>
      /\ f.result.status \in {"success", "partial_success"}
      /\ f.result.status = "success" <=> f.failed_files = << >>
      /\ f.result.status = "partial_success" =>
           f.result.failed_files = f.failed_files /\ f.result.failed_files # << >>
      /\ f.result.outputs = f.success_files
      /\ (\A i \in DOMAIN files_to_upload : ~Ended(f, UploadSteps[i], "ok")) =>
           /\ f.result = [ status |-> "partial_success", outputs |-> << >>,
                           failed_files |->
                             << "docking.pdbqt", "pose.sdf", "receptor_cryst1FH.pdb" >> ]
           /\ f.error = NoError
           /\ f.pc = "done" => f.response.code = 200

C20_Witness ==
  \E t \in Workers :
    /\ frame[t].pc = "done"
    /\ frame[t].result # NoResult
    /\ Ended(frame[t], UploadSteps[1], "missing")
    /\ Ended(frame[t], UploadSteps[2], "false")
    /\ Ended(frame[t], UploadSteps[3], "missing")

====
